---- MODULE Spec2Model ----
(***************************************************************************)
(* AgentIQ batch enrichment pipeline: the jobs table, the Celery task that *)
(* drives one run of a job (services/worker.py), the HTTP handlers that    *)
(* create and cancel jobs (api/main.py), the staleness sweep               *)
(* (core/job_recovery.py) and the tool-calling loop of the enrichment      *)
(* agent (agents/enrichment_agent.py).                                     *)
(*                                                                         *)
(* Every database commit is one atomic step; whatever can happen between   *)
(* two commits or two awaits of a handler is an interleaving of steps.     *)
(***************************************************************************)
EXTENDS Integers, Sequences, FiniteSets, TLC

\* ------------------------------------------------------------------ bounds
\* job ids the API can hand out
MaxJobs == 4
\* distinct company names a submitter can choose from, and the longest
\* raw list a request carries
MaxItems == 2
\* tenants
NumOrgs == 2
\* tool calls the model may request in one turn
MaxToolCallsPerTurn == 2
\* items of the batch in the study of a single run
MaxRunItems == 3
\* longest final text, in lexical units, in the study of _extract_json
MaxTextLen == 4
\* jobs in the study of the staleness sweep
MaxSweepJobs == 2

\* ------------------------------------------------------- program constants
MAX_CONCURRENT_JOBS_PER_ORG == 3
MAX_COMPANIES_PER_JOB == 500
GROQ_MAX_TOOL_ITERATIONS == 15
\* enrich_job_task(max_retries=3) and self.retry(countdown=60)
max_retries == 3
RETRY_COUNTDOWN == 60
\* EnrichmentAgent.max_retries: provider calls per model turn
agent_max_retries == 3

Jobs == 1..MaxJobs
SweepJobs == 1..MaxSweepJobs
Orgs == 1..NumOrgs
Names == 1..MaxItems

Active == {"queued", "running"}
Terminal == {"completed", "failed", "partial", "cancelled"}

\* error_message values
MSG_NONE == "none"
MSG_EXC == "exception detail"
MSG_PARTIAL == "Time limit exceeded (1 hour). Partial results are saved. Re-launch the job with the remaining companies to continue."
MSG_SWEEP == "Auto-reset: job exceeded maximum runtime without completing"

VARIABLES
    jobs,      \* the jobs table, one row per job id
    results,   \* enrichment_results rows of each job, in insertion order
    usage,     \* number of usage_logs rows carrying each job's id
    task,      \* the Celery message / task state of each job's run
    run,       \* the worker process executing a job's run
    req,       \* the create_job handler of each submission
    cancel,    \* the cancel_job handler of each job
    agent      \* one enrich_company invocation (agent loop study)

vars == <<jobs, results, usage, task, run, req, cancel, agent>>

\* ------------------------------------------------------------ the database
NoJob ==
    [status |-> "absent", org |-> 0, companies |-> <<>>, total_items |-> 0,
     completed_items |-> 0, failed_items |-> 0, credits_used |-> 0,
     progress_num |-> 0, celery_task_id |-> FALSE, error_message |-> MSG_NONE,
     created_at |-> "null", started_at |-> "null", completed_at |-> "null"]

\* progress_pct is stored as the numerator k of k / total_items * 100
progress_pct(j) ==
    IF jobs[j].total_items = 0 THEN (IF jobs[j].progress_num > 0 THEN 100 ELSE 0)
    ELSE (jobs[j].progress_num * 100) \div jobs[j].total_items

\* a raw company string of a request: n is the name n, -n the same name with
\* surrounding whitespace, 0 a blank string
RawNames == (0 - MaxItems)..MaxItems

\* str.strip()
Strip(r) == IF r < 0 THEN 0 - r ELSE r

RECURSIVE StripNonBlank(_)
\* [c.strip() for c in req.companies if c.strip()]
StripNonBlank(s) ==
    IF s = <<>> THEN <<>>
    ELSE IF Strip(Head(s)) = 0 THEN StripNonBlank(Tail(s))
         ELSE <<Strip(Head(s))>> \o StripNonBlank(Tail(s))

RECURSIVE FromKeys(_, _)
\* list(dict.fromkeys(xs)): first occurrences, in order
FromKeys(s, seen) ==
    IF s = <<>> THEN <<>>
    ELSE IF Head(s) \in seen THEN FromKeys(Tail(s), seen)
         ELSE <<Head(s)>> \o FromKeys(Tail(s), seen \cup {Head(s)})

Companies(raw) == FromKeys(StripNonBlank(raw), {})

\* request bodies: names are opaque strings, so lists are taken up to
\* renaming (the first distinct name of a list is called 1, the next 2, ...)
RawBatches ==
    {raw \in UNION {[1..n -> RawNames] : n \in 0..MaxItems} :
        \A k \in 1..Len(Companies(raw)) : Companies(raw)[k] = k}

\* tenants are opaque ids, taken up to renaming: a request comes from a
\* tenant seen before or from the next new one
KnownOrgs == {jobs[j].org : j \in Jobs} \cup {req[j].org : j \in Jobs}

OrgChoices == {o \in Orgs : \A p \in 1..(o - 1) : p \in KnownOrgs}

\* SELECT count(id) FROM jobs WHERE organization_id = :org AND status IN (...)
ActiveCount(o) ==
    Cardinality({j \in Jobs : jobs[j].org = o /\ jobs[j].status \in Active})

\* rows of job j with input_name n
RowsFor(j, n) == {k \in DOMAIN results[j] : results[j][k].input_name = n}

\* the table without uq_results_job_company
NoUniqueConstraint(j, n) == FALSE

\* UniqueConstraint("job_id", "input_name"): would inserting (j, n) violate it
UniqueViolation(j, n) == RowsFor(j, n) # {}

IdleTask == [state |-> "NONE", retries |-> 0, countdown |-> 0, redelivered |-> FALSE]
IdleRun == [pc |-> "idle", i |-> 0, signalled |-> FALSE, agent_raised |-> FALSE]
IdleReq == [pc |-> "idle", org |-> 0, companies |-> <<>>]
IdleAgent ==
    [pc |-> "idle", iteration |-> 0, attempt |-> 0, turns |-> 0,
     provider_calls |-> 0, final_text |-> <<>>, tool_calls_count |-> 0,
     exit |-> "none", saved |-> 0, usage_saved |-> 0,
     saved_status |-> "none", saved_text |-> <<>>, saved_data |-> <<>>,
     saved_error |-> <<>>,
     pending |-> 0, requested |-> 0, executed |-> 0, api_errors |-> 0,
     tool_result |-> [raised |-> FALSE, text |-> "none"], tool_calls_made |-> 0]

Init ==
    /\ jobs = [j \in Jobs |-> NoJob]
    /\ results = [j \in Jobs |-> <<>>]
    /\ usage = [j \in Jobs |-> 0]
    /\ task = [j \in Jobs |-> IdleTask]
    /\ run = [j \in Jobs |-> IdleRun]
    /\ req = [j \in Jobs |-> IdleReq]
    /\ cancel = [j \in Jobs |-> "idle"]
    /\ agent = IdleAgent

\* the cap test admits one job too many
CapReachedOffByOne(o) == ActiveCount(o) > MAX_CONCURRENT_JOBS_PER_ORG

\* (active_r.scalar() or 0) >= settings.MAX_CONCURRENT_JOBS_PER_ORG
CapReached(o) == ActiveCount(o) >= MAX_CONCURRENT_JOBS_PER_ORG

\* ------------------------------------------------------- POST /jobs handler
\* validation and the concurrent-job cap; a rejected request raises
\* HTTPException before anything is written
CreateJobCheck(j, o, raw) ==
    /\ req[j].pc = "idle"
    /\ jobs[j].status = "absent"
    /\ IF raw = <<>> \/ Len(raw) > MAX_COMPANIES_PER_JOB THEN
           req' = [req EXCEPT ![j] = [pc |-> "rejected400", org |-> o, companies |-> <<>>]]
       ELSE IF CapReached(o) THEN
           req' = [req EXCEPT ![j] = [pc |-> "rejected429", org |-> o, companies |-> <<>>]]
       ELSE
           req' = [req EXCEPT ![j] = [pc |-> "checked", org |-> o, companies |-> Companies(raw)]]
    /\ UNCHANGED <<jobs, results, usage, task, run, cancel, agent>>

\* a tenant posts a batch
SubmitBatch(j) ==
    /\ req[j].pc = "idle"
    /\ \E o \in OrgChoices, raw \in RawBatches : CreateJobCheck(j, o, raw)

\* requests are numbered in the order they arrive
NextRequest(j) == req[j].pc = "idle" /\ \A p \in 1..(j - 1) : req[p].pc # "idle"

\* a tenant posts a batch of one company
SubmitOne(j) ==
    /\ NextRequest(j)
    /\ \E o \in OrgChoices : CreateJobCheck(j, o, <<1>>)

\* request bodies the size check turns away: no company, and one more than
\* the maximum (the same name over and over)
EdgeBatches == {<<>>, [k \in 1..(MAX_COMPANIES_PER_JOB + 1) |-> 1]}

\* a tenant posts a batch at a limit of the size check
SubmitEdge(j) ==
    /\ NextRequest(j)
    /\ \E o \in OrgChoices, raw \in EdgeBatches : CreateJobCheck(j, o, raw)

\* the tenant of the sweep study posts a batch of one company
SubmitSweep(j) ==
    /\ NextRequest(j)
    /\ CreateJobCheck(j, 1, <<1>>)

\* batches of distinct, already clean names
RunBatches == {[k \in 1..n |-> k] : n \in 1..MaxRunItems}

\* a tenant posts a batch of distinct names
SubmitRun(j) ==
    /\ req[j].pc = "idle"
    /\ \E raw \in RunBatches : CreateJobCheck(j, 1, raw)

\* db.add(job); await db.commit(); await db.refresh(job)
CreateJobInsert(j) ==
    /\ req[j].pc = "checked"
    /\ jobs' = [jobs EXCEPT ![j] =
                  [NoJob EXCEPT !.status = "queued", !.org = req[j].org,
                                !.companies = req[j].companies,
                                !.total_items = Len(req[j].companies),
                                !.created_at = "recent"]]
    /\ req' = [req EXCEPT ![j].pc = "inserted"]
    /\ UNCHANGED <<results, usage, task, run, cancel, agent>>

\* task = enrich_job_task.delay(...); job.celery_task_id = task.id; commit
CreateJobEnqueue(j) ==
    /\ req[j].pc = "inserted"
    /\ task' = [task EXCEPT ![j] = [IdleTask EXCEPT !.state = "PENDING"]]
    /\ jobs' = [jobs EXCEPT ![j].celery_task_id = TRUE]
    /\ req' = [req EXCEPT ![j].pc = "done"]
    /\ UNCHANGED <<results, usage, run, cancel, agent>>

\* the broker is unreachable: delay() raises, the handler aborts with the job
\* row already committed
CreateJobEnqueueFails(j) ==
    /\ req[j].pc = "inserted"
    /\ req' = [req EXCEPT ![j].pc = "error500"]
    /\ UNCHANGED <<jobs, results, usage, task, run, cancel, agent>>

\* ------------------------------------------------- services/worker.py task
\* a text is a sequence of lexical units: the braces, a "key": value pair,
\* a comma, a ``` fence, white space, and anything else
Tokens == {"{", "}", "kv", ",", "fence", " ", "x"}

\* texts of at most n units
TextsUpTo(n) == UNION {[1..k -> Tokens] : k \in 0..n}

\* None of Python where a string is expected
None == <<"None">>

RECURSIVE lstrip(_)
lstrip(s) == IF s # <<>> /\ Head(s) = " " THEN lstrip(Tail(s)) ELSE s

RECURSIVE rstrip(_, _)
\* str.rstrip(chars)
rstrip(s, c) ==
    IF s # <<>> /\ s[Len(s)] = c THEN rstrip(SubSeq(s, 1, Len(s) - 1), c) ELSE s

\* str.strip()
strip(s) == lstrip(rstrip(s, " "))

\* json.loads(s) returns (an object, as every candidate starts with a
\* brace): white space between units is insignificant, the members are
\* pairs separated by single commas
Loads(s) ==
    LET t == strip(s)
        body == SelectSeq(SubSeq(t, 2, Len(t) - 1), LAMBDA c : c # " ")
    IN  /\ Len(t) >= 2
        /\ t[1] = "{"
        /\ t[Len(t)] = "}"
        /\ \/ body = <<>>
           \/ /\ Len(body) % 2 = 1
              /\ \A k \in 1..Len(body) : body[k] = IF k % 2 = 1 THEN "kv" ELSE ","

\* first position after i that holds no white space (Len + 1 when none)
SkipWs(t, i) ==
    IF \E k \in (i + 1)..Len(t) : t[k] # " "
    THEN CHOOSE k \in (i + 1)..Len(t) : t[k] # " " /\ \A m \in (i + 1)..(k - 1) : t[m] = " "
    ELSE Len(t) + 1

\* does ```(?:json)?\s*(\{.*?\})\s*``` match from the fence at i with its
\* group ending at k
FenceMatch(t, i, k) ==
    /\ t[i] = "fence"
    /\ SkipWs(t, i) < k
    /\ t[SkipWs(t, i)] = "{"
    /\ t[k] = "}"
    /\ SkipWs(t, k) <= Len(t)
    /\ t[SkipWs(t, k)] = "fence"

\* group 1 of re.search(r"```(?:json)?\s*(\{.*?\})\s*```", text, re.DOTALL):
\* the leftmost match, its group as short as possible
Fenced(t) ==
    LET starts == {i \in 1..Len(t) : \E k \in 1..Len(t) : FenceMatch(t, i, k)}
    IN  IF starts = {} THEN None
        ELSE LET i == CHOOSE a \in starts : \A b \in starts : a <= b
                 k == CHOOSE a \in 1..Len(t) :
                        FenceMatch(t, i, a) /\ \A b \in 1..(a - 1) : ~FenceMatch(t, i, b)
             IN  SubSeq(t, SkipWs(t, i), k)

\* position of the first opening brace (0 when none)
FirstBrace(t) ==
    IF \E k \in 1..Len(t) : t[k] = "{"
    THEN CHOOSE k \in 1..Len(t) : t[k] = "{" /\ \A m \in 1..(k - 1) : t[m] # "{"
    ELSE 0

\* re.search(r"\{.*\}", text, re.DOTALL): from the first opening brace to the
\* last closing brace after it
Brace(t) ==
    LET a == FirstBrace(t)
        ends == {k \in (a + 1)..Len(t) : t[k] = "}"}
    IN  IF a = 0 \/ ends = {} THEN None
        ELSE SubSeq(t, a, CHOOSE k \in ends : \A m \in ends : m <= k)

\* re.search(r"\{.*", ...).group(0).rstrip().rstrip(",") + "\n}"
Repaired(t) ==
    LET a == FirstBrace(t)
    IN  IF a = 0 THEN None
        ELSE rstrip(rstrip(SubSeq(t, a, Len(t)), " "), ",") \o <<" ", "}">>

\* _extract_json without its last resort, the repair of a truncated object
extract_json_no_repair(text) ==
    IF text = <<>> THEN None
    ELSE LET t == strip(text) IN
         IF t # <<>> /\ t[1] = "{" /\ Loads(t) THEN t
         ELSE IF Fenced(t) # None /\ Loads(Fenced(t)) THEN Fenced(t)
         ELSE IF Brace(t) # None /\ Loads(Brace(t)) THEN Brace(t)
         ELSE None

\* EnrichmentAgent._extract_json
extract_json(text) ==
    IF text = <<>> THEN None
    ELSE LET t == strip(text) IN
         IF t # <<>> /\ t[1] = "{" /\ Loads(t) THEN t
         ELSE IF Fenced(t) # None /\ Loads(Fenced(t)) THEN Fenced(t)
         ELSE IF Brace(t) # None /\ Loads(Brace(t)) THEN Brace(t)
         ELSE IF Repaired(t) # None /\ Loads(Repaired(t)) THEN Repaired(t)
         ELSE None

\* the texts enrich_company ends with in the study of the runs: no text, an
\* object, prose
NoText == <<>>
JsonText == <<"{", "kv", "}">>
ProseText == <<"x">>
FinalTexts == {NoText, JsonText, ProseText}

\* _save_result: json_str is truthy and json.loads(json_str) is a dict
Parses(text) == extract_json(text) # None

\* status of the row _save_result stores
SaveStatus(text) == IF Parses(text) THEN "completed" ELSE "failed"

\* raw_text[:200]
PREVIEW_LEN == 200
Preview(text) == SubSeq(text, 1, IF Len(text) < PREVIEW_LEN THEN Len(text) ELSE PREVIEW_LEN)

\* error_message of the row _save_result stores: None, or
\* "No JSON found. Preview: {raw_text[:200]}"
SaveError(text) ==
    IF Parses(text) THEN <<"null">>
    ELSE <<"No JSON found. Preview: ">> \o Preview(text)

\* the comparison off by one
ShouldRetryOffByOne(r) == r <= max_retries

\* self.request.retries < self.max_retries
ShouldRetry(r) == r < max_retries

\* marking a job failed also clears its progress
MarkJobFailedResets(j) ==
    [jobs EXCEPT ![j] =
        IF @.status \in {"queued", "running"}
        THEN [@ EXCEPT !.status = "failed", !.error_message = MSG_EXC, !.completed_at = "set",
                       !.completed_items = 0, !.failed_items = 0]
        ELSE @]

\* _mark_job_failed: UPDATE ... WHERE id = :job_id AND status IN ('queued','running')
MarkJobFailed(j) ==
    [jobs EXCEPT ![j] =
        IF @.status \in {"queued", "running"}
        THEN [@ EXCEPT !.status = "failed", !.error_message = MSG_EXC, !.completed_at = "set"]
        ELSE @]

\* marking a job partial also rolls its counters back
MarkJobPartialResets(j) ==
    [jobs EXCEPT ![j] =
        IF @.status = "running"
        THEN [@ EXCEPT !.status = "partial", !.error_message = MSG_PARTIAL,
                       !.completed_at = "set", !.completed_items = 0, !.failed_items = 0,
                       !.credits_used = 0, !.progress_num = 0]
        ELSE @]

\* _mark_job_partial: UPDATE ... WHERE id = :job_id AND status = 'running'
MarkJobPartial(j) ==
    [jobs EXCEPT ![j] =
        IF @.status = "running"
        THEN [@ EXCEPT !.status = "partial", !.error_message = MSG_PARTIAL, !.completed_at = "set"]
        ELSE @]

\* an exception leaves _run_job: the open transaction is rolled back and
\* enrich_job_task either re-publishes the task or marks the job failed
TaskRaises(j) ==
    /\ run' = [run EXCEPT ![j] = IdleRun]
    /\ IF ShouldRetry(task[j].retries)
       THEN /\ task' = [task EXCEPT ![j] = [state |-> "RETRY", retries |-> @.retries + 1,
                                             countdown |-> RETRY_COUNTDOWN,
                                             redelivered |-> FALSE]]
            /\ jobs' = jobs
       ELSE /\ task' = [task EXCEPT ![j].state = "FAILURE"]
            /\ jobs' = MarkJobFailed(j)

\* the time-limit handler marks the job partial whatever its status
TaskTimesOutUnconditional(j) ==
    /\ run' = [run EXCEPT ![j] = IdleRun]
    /\ task' = [task EXCEPT ![j].state = "SUCCESS"]
    /\ jobs' = [jobs EXCEPT ![j].status = "partial", ![j].error_message = MSG_PARTIAL,
                            ![j].completed_at = "set"]

\* SoftTimeLimitExceeded leaves _run_job: the job is marked partial and the
\* task returns normally
TaskTimesOut(j) ==
    /\ run' = [run EXCEPT ![j] = IdleRun]
    /\ task' = [task EXCEPT ![j].state = "SUCCESS"]
    /\ jobs' = MarkJobPartial(j)

\* the loop does not advance past the item it just handled
NextItemStays(j) == [run[j] EXCEPT !.pc = "agent", !.agent_raised = FALSE]

\* after the step for item i: the next item, or phase 3
NextItem(j) ==
    IF run[j].i < Len(jobs[j].companies)
    THEN [run[j] EXCEPT !.pc = "agent", !.i = @ + 1, !.agent_raised = FALSE]
    ELSE [run[j] EXCEPT !.pc = "phase3", !.agent_raised = FALSE]

\* name of the item the run is at
Company(j) == jobs[j].companies[run[j].i]

\* a worker takes the message; phase 1 of _run_job marks the job running
StartRun(j) ==
    /\ task[j].state \in {"PENDING", "RETRY"}
    /\ run[j].pc = "idle"
    /\ IF jobs[j].status = "absent"
       THEN /\ task' = [task EXCEPT ![j].state = "SUCCESS"]
            /\ UNCHANGED <<jobs, run>>
       ELSE /\ task' = [task EXCEPT ![j].state = "STARTED"]
            /\ jobs' = [jobs EXCEPT ![j].status = "running", ![j].started_at = "recent",
                                    ![j].celery_task_id = TRUE]
            /\ run' = [run EXCEPT ![j] =
                          [pc |-> IF Len(jobs[j].companies) = 0 THEN "phase3" ELSE "agent",
                           i |-> IF Len(jobs[j].companies) = 0 THEN 0 ELSE 1,
                           signalled |-> FALSE, agent_raised |-> FALSE]]
    /\ UNCHANGED <<results, usage, req, cancel, agent>>

\* the job row is deleted while its message waits in the queue; the
\* database removes the job's results with it (ON DELETE CASCADE)
JobRowDeleted(j) ==
    /\ task[j].state \in {"PENDING", "RETRY"}
    /\ run[j].pc = "idle"
    /\ jobs[j].status # "absent"
    /\ jobs' = [jobs EXCEPT ![j] = NoJob]
    /\ results' = [results EXCEPT ![j] = <<>>]
    /\ UNCHANGED <<usage, task, run, req, cancel, agent>>

\* a worker takes the message, and EnrichmentAgent() or the phase-1
\* transaction raises
StartRunRaises(j) ==
    /\ task[j].state \in {"PENDING", "RETRY"}
    /\ run[j].pc = "idle"
    /\ TaskRaises(j)
    /\ UNCHANGED <<results, usage, req, cancel, agent>>

\* agent.enrich_company returns: one row and one usage log, committed by the
\* agent itself
AgentReturns(j, text) ==
    /\ run[j].pc = "agent"
    /\ ~UniqueViolation(j, Company(j))
    /\ results' = [results EXCEPT ![j] =
                      Append(@, [input_name |-> Company(j), status |-> SaveStatus(text),
                                 error_message |-> SaveError(text), by |-> "agent"])]
    /\ usage' = [usage EXCEPT ![j] = @ + 1]
    /\ run' = [run EXCEPT ![j].pc = "count"]
    /\ UNCHANGED <<jobs, task, req, cancel, agent>>

\* agent.enrich_company raises (the flush hits the unique constraint, or the
\* connection fails): nothing of the agent's session is persisted
AgentRaises(j) ==
    /\ run[j].pc = "agent"
    /\ run' = [run EXCEPT ![j].pc = "except", ![j].agent_raised = TRUE]
    /\ UNCHANGED <<jobs, results, usage, task, req, cancel, agent>>

\* a success branch that counts the item and charges no credit
CountItemNoCredit(j) ==
    /\ run[j].pc = "count"
    /\ usage' = [usage EXCEPT ![j] = @ + 1]
    /\ jobs' = [jobs EXCEPT ![j].completed_items = @ + 1,
                            ![j].progress_num = jobs[j].completed_items + 1]
    /\ run' = [run EXCEPT ![j] = NextItem(j)]
    /\ UNCHANGED <<results, task, req, cancel, agent>>

\* success branch of the item step: usage log, atomic increment, commit
CountItem(j) ==
    /\ run[j].pc = "count"
    /\ usage' = [usage EXCEPT ![j] = @ + 1]
    /\ jobs' = [jobs EXCEPT ![j].completed_items = @ + 1,
                            ![j].progress_num = jobs[j].completed_items + 1,
                            ![j].credits_used = @ + 1]
    /\ run' = [run EXCEPT ![j] = NextItem(j)]
    /\ UNCHANGED <<results, task, req, cancel, agent>>

\* the success branch raises (connection lost): control enters the handler
CountItemRaises(j) ==
    /\ run[j].pc = "count"
    /\ run' = [run EXCEPT ![j].pc = "except"]
    /\ UNCHANGED <<jobs, results, usage, task, req, cancel, agent>>

\* an except branch that stores the failed row and leaves the counter alone
ExceptItemUncounted(j) ==
    /\ run[j].pc = "except"
    /\ ~UniqueViolation(j, Company(j))
    /\ results' = [results EXCEPT ![j] =
                      Append(@, [input_name |-> Company(j), status |-> "failed",
                                 error_message |-> <<MSG_EXC>>, by |-> "worker"])]
    /\ jobs' = [jobs EXCEPT ![j].progress_num = jobs[j].completed_items + jobs[j].failed_items + 1]
    /\ run' = [run EXCEPT ![j] = NextItem(j)]
    /\ UNCHANGED <<usage, task, req, cancel, agent>>

\* except branch of the item step: synthetic failed row, atomic increment,
\* commit
ExceptItem(j) ==
    /\ run[j].pc = "except"
    /\ ~UniqueViolation(j, Company(j))
    /\ results' = [results EXCEPT ![j] =
                      Append(@, [input_name |-> Company(j), status |-> "failed",
                                 error_message |-> <<MSG_EXC>>, by |-> "worker"])]
    /\ jobs' = [jobs EXCEPT ![j].failed_items = @ + 1,
                            ![j].progress_num = jobs[j].completed_items + jobs[j].failed_items + 1]
    /\ run' = [run EXCEPT ![j] = NextItem(j)]
    /\ UNCHANGED <<usage, task, req, cancel, agent>>

\* the except branch raises in turn (its insert hits the unique constraint,
\* or the session is unusable): the exception leaves _run_job
ExceptItemRaises(j) ==
    /\ run[j].pc = "except"
    /\ TaskRaises(j)
    /\ UNCHANGED <<results, usage, req, cancel, agent>>

\* phase 3 marks a run in which every item failed as failed
FinishRunFailsWhenAllFailed(j) ==
    /\ run[j].pc = "phase3"
    /\ jobs' = [jobs EXCEPT ![j].status = IF jobs[j].failed_items >= jobs[j].total_items
                                          THEN "failed" ELSE "completed",
                            ![j].completed_at = "set",
                            ![j].progress_num = IF jobs[j].total_items = 0 THEN 1
                                                ELSE jobs[j].total_items]
    /\ task' = [task EXCEPT ![j].state = "SUCCESS"]
    /\ run' = [run EXCEPT ![j] = IdleRun]
    /\ UNCHANGED <<results, usage, req, cancel, agent>>

\* phase 3: unconditional UPDATE to completed, then the task returns
FinishRun(j) ==
    /\ run[j].pc = "phase3"
    /\ jobs' = [jobs EXCEPT ![j].status = "completed", ![j].completed_at = "set",
                            ![j].progress_num = IF jobs[j].total_items = 0 THEN 1
                                                ELSE jobs[j].total_items]
    /\ task' = [task EXCEPT ![j].state = "SUCCESS"]
    /\ run' = [run EXCEPT ![j] = IdleRun]
    /\ UNCHANGED <<results, usage, req, cancel, agent>>

\* the phase-3 transaction raises
FinishRunRaises(j) ==
    /\ run[j].pc = "phase3"
    /\ TaskRaises(j)
    /\ UNCHANGED <<results, usage, req, cancel, agent>>

\* ------------------------------------------------ time limits and worker loss
Running(j) == run[j].pc # "idle"

\* the soft time limit raises SoftTimeLimitExceeded in the worker's main
\* thread while the event loop is between coroutine steps, or inside the
\* except branch: it leaves _run_job and reaches enrich_job_task
SoftTimeLimitEscapes(j) ==
    /\ Running(j)
    /\ ~run[j].signalled
    /\ TaskTimesOut(j)
    /\ UNCHANGED <<results, usage, req, cancel, agent>>

\* SoftTimeLimitExceeded (an Exception) is raised while coroutine code of
\* the try block runs: `except Exception` of the item step catches it
SoftTimeLimitCaught(j) ==
    /\ run[j].pc \in {"agent", "count"}
    /\ ~run[j].signalled
    /\ run' = [run EXCEPT ![j].pc = "except", ![j].signalled = TRUE]
    /\ UNCHANGED <<jobs, results, usage, task, req, cancel, agent>>

\* SoftTimeLimitExceeded is raised inside a tool call: execute_tool's
\* `except Exception` turns it into a tool result and the agent goes on
SoftTimeLimitSwallowed(j) ==
    /\ run[j].pc = "agent"
    /\ ~run[j].signalled
    /\ run' = [run EXCEPT ![j].signalled = TRUE]
    /\ UNCHANGED <<jobs, results, usage, task, req, cancel, agent>>

\* the hard time limit kills the pool process of a run that outlived its
\* soft limit; the message is acknowledged, no handler of the task runs
HardKill(j) ==
    /\ Running(j)
    /\ run[j].signalled
    /\ run' = [run EXCEPT ![j] = IdleRun]
    /\ task' = [task EXCEPT ![j].state = "FAILURE"]
    /\ UNCHANGED <<jobs, results, usage, req, cancel, agent>>

\* the message is acknowledged when the worker takes it
task_acks_early == FALSE

\* celery_app.conf: task_acks_late=True, task_reject_on_worker_lost=True
task_acks_late == TRUE

task_reject_on_worker_lost == TRUE

\* the message of a run goes back to the queue while the process that
\* executes the run lives on
WorkerLostStillRuns(j) ==
    /\ Running(j)
    /\ task[j].state = "STARTED"
    /\ task' = [task EXCEPT ![j].state = "PENDING", ![j].redelivered = TRUE]
    /\ UNCHANGED <<jobs, results, usage, run, req, cancel, agent>>

\* the worker is lost mid-run (crash, OOM, deploy restart): with
\* task_acks_late and task_reject_on_worker_lost the unacknowledged message
\* goes back to the queue, flagged as redelivered; otherwise the message is
\* gone and the task is recorded as failed with WorkerLostError
WorkerLost(j) ==
    /\ Running(j)
    /\ run' = [run EXCEPT ![j] = IdleRun]
    /\ task' = IF task_acks_late /\ task_reject_on_worker_lost
               THEN [task EXCEPT ![j].state = "PENDING", ![j].redelivered = TRUE]
               ELSE [task EXCEPT ![j].state = "FAILURE"]
    /\ UNCHANGED <<jobs, results, usage, req, cancel, agent>>

\* ------------------------------------------- POST /jobs/{job_id}/cancel
\* job = await db.get(Job, job_id) and the status check
CancelJobRead(j) ==
    /\ cancel[j] \in {"idle", "rejected400", "cancelled"}
    /\ jobs[j].status # "absent"
    /\ cancel' = [cancel EXCEPT ![j] =
                    IF jobs[j].status \notin {"queued", "running"} THEN "rejected400"
                    ELSE IF jobs[j].celery_task_id THEN "revoke" ELSE "write"]
    /\ UNCHANGED <<jobs, results, usage, task, run, req, agent>>

\* celery_app.control.revoke(task_id, terminate=True): the queued message
\* is discarded or the running process is terminated
Revoked(j) ==
    /\ task' = [task EXCEPT ![j].state =
                  IF @ \in {"PENDING", "RETRY", "STARTED"} THEN "REVOKED" ELSE @]
    /\ run' = [run EXCEPT ![j] = IdleRun]

\* a cancel_job that records the status and no completion time
CancelJobWriteNoTime(j, revoked) ==
    /\ cancel[j] \in {"revoke", "write"}
    /\ IF cancel[j] = "revoke" /\ revoked THEN Revoked(j) ELSE UNCHANGED <<task, run>>
    /\ jobs' = [jobs EXCEPT ![j].status = "cancelled"]
    /\ cancel' = [cancel EXCEPT ![j] = "cancelled"]
    /\ UNCHANGED <<results, usage, req, agent>>

\* the rest of cancel_job: revoke when the row read had a task id (revoked
\* tells whether the revocation took effect; failures are logged and
\* ignored), then job.status = "cancelled", completed_at, commit
CancelJobWrite(j, revoked) ==
    /\ cancel[j] \in {"revoke", "write"}
    /\ IF cancel[j] = "revoke" /\ revoked THEN Revoked(j) ELSE UNCHANGED <<task, run>>
    /\ jobs' = [jobs EXCEPT ![j].status = "cancelled", ![j].completed_at = "set"]
    /\ cancel' = [cancel EXCEPT ![j] = "cancelled"]
    /\ UNCHANGED <<results, usage, req, agent>>

\* ------------------------------------------------- core/job_recovery.py
\* started_at < cutoff OR (started_at IS NULL AND created_at < cutoff)
Stale(j) ==
    \/ jobs[j].started_at = "old"
    \/ (jobs[j].started_at = "null" /\ jobs[j].created_at = "old")

\* rows the sweep's UPDATE matches
Stuck == {j \in Jobs : jobs[j].status \in {"running", "queued"} /\ Stale(j)}

\* a sweep that puts every stale job back into the queue, whatever its status
stuck_job_requeue ==
    /\ \E j \in Jobs : jobs[j].status # "absent" /\ Stale(j)
    /\ jobs' = [j \in Jobs |->
                  IF jobs[j].status # "absent" /\ Stale(j)
                  THEN [jobs[j] EXCEPT !.status = "queued", !.error_message = MSG_SWEEP]
                  ELSE jobs[j]]
    /\ UNCHANGED <<results, usage, task, run, req, cancel, agent>>

\* a sweep whose UPDATE has no condition on the status
stuck_job_cleanup_any_status ==
    /\ \E j \in Jobs : jobs[j].status # "absent" /\ Stale(j)
    /\ jobs' = [j \in Jobs |->
                  IF jobs[j].status # "absent" /\ Stale(j)
                  THEN [jobs[j] EXCEPT !.status = "failed", !.error_message = MSG_SWEEP,
                                       !.completed_at = "set"]
                  ELSE jobs[j]]
    /\ UNCHANGED <<results, usage, task, run, req, cancel, agent>>

\* the UPDATE of the sweep and its commit; a sweep that matches no row
\* changes nothing
stuck_job_cleanup ==
    /\ Stuck # {}
    /\ jobs' = [j \in Jobs |->
                  IF j \in Stuck
                  THEN [jobs[j] EXCEPT !.status = "failed", !.error_message = MSG_SWEEP,
                                       !.completed_at = "set"]
                  ELSE jobs[j]]
    /\ UNCHANGED <<results, usage, task, run, req, cancel, agent>>

\* STUCK_THRESHOLD_HOURS elapse: every timestamp taken so far is now older
\* than the cutoff
ThresholdElapses ==
    /\ \E j \in Jobs : "recent" \in {jobs[j].created_at, jobs[j].started_at}
    /\ jobs' = [j \in Jobs |->
                  [jobs[j] EXCEPT !.created_at = IF @ = "recent" THEN "old" ELSE @,
                                  !.started_at = IF @ = "recent" THEN "old" ELSE @]]
    /\ UNCHANGED <<results, usage, task, run, req, cancel, agent>>

\* ------------------------------------------- agents/enrichment_agent.py
\* what one provider call of _call_groq_with_retry can do
ProviderOutcomes == {"ok", "timeout", "ratelimit", "apierror", "unexpected"}

\* a model response: finish reason, message content, requested tool calls
Responses ==
    [finish : {"stop", "tool_calls", "length"}, content : FinalTexts,
     ncalls : 0..MaxToolCallsPerTurn]

\* the loop condition off by one
LoopContinuesOffByOne(iteration) == iteration <= GROQ_MAX_TOOL_ITERATIONS

\* while iteration < self.max_iterations
LoopContinues(iteration) == iteration < GROQ_MAX_TOOL_ITERATIONS

\* enrich_company is entered: counters and conversation are initialised
EnrichStart ==
    /\ agent.pc = "idle"
    /\ agent' = [IdleAgent EXCEPT !.pc = "loop"]
    /\ UNCHANGED <<jobs, results, usage, task, run, req, cancel>>

\* top of the while loop: one more model turn, or the loop ends at the cap
LoopTop ==
    /\ agent.pc = "loop"
    /\ IF LoopContinues(agent.iteration)
       THEN agent' = [agent EXCEPT !.pc = "call", !.iteration = @ + 1, !.attempt = 0,
                                   !.turns = @ + 1, !.provider_calls = 0,
                                   !.api_errors = 0,
                                   !.tool_result = IdleAgent.tool_result]
       ELSE agent' = [agent EXCEPT !.pc = "save", !.exit = "cap",
                                   !.tool_result = IdleAgent.tool_result]
    /\ UNCHANGED <<jobs, results, usage, task, run, req, cancel>>

\* a response that neither stops nor calls tools ends the loop without its
\* content being taken
HandleResponseDropsContent(a, resp) ==
    IF resp.finish = "stop"
    THEN [a EXCEPT !.pc = "save", !.final_text = resp.content, !.exit = "stop"]
    ELSE IF resp.finish = "tool_calls" /\ resp.ncalls > 0
    THEN [a EXCEPT !.pc = "tools", !.pending = resp.ncalls, !.requested = @ + resp.ncalls]
    ELSE [a EXCEPT !.pc = "save", !.exit = "other"]

\* the loop body after a response arrived
HandleResponse(a, resp) ==
    IF resp.finish = "stop"
    THEN [a EXCEPT !.pc = "save", !.final_text = resp.content, !.exit = "stop"]
    ELSE IF resp.finish = "tool_calls" /\ resp.ncalls > 0
    THEN [a EXCEPT !.pc = "tools", !.pending = resp.ncalls, !.requested = @ + resp.ncalls]
    ELSE [a EXCEPT !.pc = "save", !.exit = "other",
                   !.final_text = IF resp.content # <<>> THEN resp.content ELSE @]

\* one attempt too many
MoreAttemptsOffByOne(attempt) == attempt + 1 <= agent_max_retries

\* for attempt in range(self.max_retries): is there an attempt after this one
MoreAttempts(attempt) == attempt + 1 < agent_max_retries

\* one provider call inside _call_groq_with_retry, and what follows it
\* (provider_calls counts the calls of the current _call_groq_with_retry,
\* api_errors the APIErrors it has caught and will not return)
ProviderCall(outcome, resp) ==
    /\ agent.pc = "call"
    /\ LET a == [agent EXCEPT !.provider_calls = @ + 1] IN
       CASE outcome = "ok" -> agent' = HandleResponse([a EXCEPT !.api_errors = 0], resp)
         [] outcome \in {"timeout", "ratelimit"} ->
              agent' = IF MoreAttempts(agent.attempt)
                       THEN [a EXCEPT !.attempt = @ + 1]
                       ELSE [a EXCEPT !.pc = "save", !.exit = "noresponse"]
         [] outcome = "apierror" ->
              agent' = IF agent.attempt < agent_max_retries - 1
                       THEN [a EXCEPT !.attempt = @ + 1, !.api_errors = @ + 1]
                       ELSE [a EXCEPT !.pc = "save", !.exit = "noresponse",
                                      !.api_errors = @ + 1]
         [] outcome = "unexpected" ->
              agent' = [a EXCEPT !.pc = "save", !.exit = "noresponse"]
    /\ UNCHANGED <<jobs, results, usage, task, run, req, cancel>>

\* the provider answers, or fails, one call of the current model turn
ModelTurn ==
    /\ agent.pc = "call"
    /\ \E outcome \in ProviderOutcomes :
         \E resp \in IF outcome = "ok" THEN Responses
                      ELSE {[finish |-> "stop", content |-> <<>>, ncalls |-> 0]} :
           ProviderCall(outcome, resp)

\* ---- agents/tools.py
KnownTools == {"search_web", "scrape_website", "find_company_website", "get_linkedin_info"}

\* names the model can put into a tool call
ToolNames == KnownTools \cup {"unknown_tool"}

\* tc.function.arguments, a string written by the model: not JSON at all,
\* JSON that is not an object, an object without the tool's required key,
\* with it as a string, with it as a number
Arguments == {"not json", "[]", "{}", "{key: text}", "{key: 7}"}

\* what the HTTP lookup behind a tool does
Lookups == {"ok", "empty", "fails"}

Returned(text) == [raised |-> FALSE, text |-> text]
Raised(exc) == [raised |-> TRUE, text |-> exc]

\* try: json.loads(arguments) except json.JSONDecodeError: {}
LoadsArguments(arguments) == IF arguments = "not json" THEN "{}" ELSE arguments

\* list(args.keys()) of the log line: only a dict has keys
HasKeys(args) == args # "[]"

search_web(lookup) ==
    CASE lookup = "ok" -> Returned("search results")
      [] lookup = "empty" -> Returned("No results for: query")
      [] lookup = "fails" -> Returned("Search error: detail")

scrape_website(args, lookup) ==
    IF args = "{key: 7}" THEN Raised("AttributeError")
    ELSE IF lookup = "fails" THEN Returned("Scrape error for url: detail")
    ELSE Returned("page text")

find_company_website(lookup) ==
    CASE lookup = "ok" -> Returned("https://company.example")
      [] lookup = "empty" -> Returned("Could not find website for company")
      [] lookup = "fails" -> Returned("Error: detail")

get_linkedin_info(lookup) == search_web(lookup)

\* tool_map[tool_name](tool_input): i["query"], i["url"], i["company_name"]
\* raise KeyError when the required key is missing
Handler(tool_name, args, lookup) ==
    IF args = "{}" THEN Raised("KeyError")
    ELSE CASE tool_name = "search_web" -> search_web(lookup)
           [] tool_name = "scrape_website" -> scrape_website(args, lookup)
           [] tool_name = "find_company_website" -> find_company_website(lookup)
           [] tool_name = "get_linkedin_info" -> get_linkedin_info(lookup)

\* execute_tool without its try/except
execute_tool_unguarded(tool_name, args, lookup) ==
    IF tool_name \notin KnownTools THEN Returned("Unknown tool: name")
    ELSE Handler(tool_name, args, lookup)

execute_tool(tool_name, args, lookup) ==
    IF tool_name \notin KnownTools THEN Returned("Unknown tool: name")
    ELSE IF Handler(tool_name, args, lookup).raised
         THEN Returned("Tool error (name): detail")
         ELSE Handler(tool_name, args, lookup)

\* one pass of `for tc in msg.tool_calls`: count, parse the arguments, log
\* their keys, run the tool, append its result to the conversation
ToolCall(tool_name, arguments, lookup) ==
    /\ agent.pc = "tools"
    /\ LET a == [agent EXCEPT !.tool_calls_count = @ + 1]
           args == LoadsArguments(arguments)
           result == execute_tool(tool_name, args, lookup)
       IN  agent' =
             IF ~HasKeys(args) THEN [a EXCEPT !.pc = "raised"]
             ELSE IF result.raised
                  THEN [a EXCEPT !.pc = "raised", !.executed = @ + 1, !.tool_result = result]
                  ELSE [a EXCEPT !.executed = @ + 1, !.tool_result = result,
                                 !.pending = @ - 1,
                                 !.pc = IF agent.pending = 1 THEN "loop" ELSE "tools"]
    /\ UNCHANGED <<jobs, results, usage, task, run, req, cancel>>

\* the next tool call of the response is handled
RunTool ==
    /\ agent.pc = "tools"
    /\ \E tool_name \in ToolNames, arguments \in Arguments, lookup \in Lookups :
         ToolCall(tool_name, arguments, lookup)

\* ---- back in enrich_company
\* _save_result, the usage log and the commit
SaveResult ==
    /\ agent.pc = "save"
    /\ agent' = [agent EXCEPT !.pc = "done", !.saved = @ + 1, !.usage_saved = @ + 1,
                              !.saved_status = SaveStatus(agent.final_text),
                              !.saved_text = agent.final_text,
                              !.saved_data = extract_json(agent.final_text),
                              !.saved_error = SaveError(agent.final_text),
                              !.tool_calls_made = agent.tool_calls_count]
    /\ UNCHANGED <<jobs, results, usage, task, run, req, cancel>>

\* the flush or the commit raises: nothing is persisted
SaveResultRaises ==
    /\ agent.pc = "save"
    /\ agent' = [agent EXCEPT !.pc = "raised"]
    /\ UNCHANGED <<jobs, results, usage, task, run, req, cancel>>

AgentStep ==
    \/ EnrichStart
    \/ LoopTop
    \/ ModelTurn
    \/ RunTool
    \/ SaveResult
    \/ SaveResultRaises

\* --------------------------------------------------------- specifications
\* steps of the run of job j
RunStep(j) ==
    \/ StartRun(j)
    \/ StartRunRaises(j)
    \/ \E text \in FinalTexts : AgentReturns(j, text)
    \/ AgentRaises(j)
    \/ CountItem(j)
    \/ CountItemRaises(j)
    \/ ExceptItem(j)
    \/ ExceptItemRaises(j)
    \/ FinishRun(j)
    \/ FinishRunRaises(j)

\* steps of the create_job handler for submission j
CreateStep(j) ==
    \/ SubmitBatch(j)
    \/ CreateJobInsert(j)
    \/ CreateJobEnqueue(j)

\* steps of the cancel_job handler for job j
CancelStep(j) ==
    \/ CancelJobRead(j)
    \/ \E revoked \in BOOLEAN : CancelJobWrite(j, revoked)

\* the soft time limit of the run of job j expires
SoftTimeLimit(j) ==
    \/ SoftTimeLimitEscapes(j)
    \/ SoftTimeLimitCaught(j)
    \/ SoftTimeLimitSwallowed(j)

\* what the scheduler and the platform do to the run of job j
EnvStep(j) ==
    \/ SoftTimeLimit(j)
    \/ HardKill(j)
    \/ WorkerLost(j)

\* one submission, followed through everything that can happen to it
Solo == {1}

Next ==
    \/ \E j \in Solo : RunStep(j)
    \/ \E j \in Solo : CreateStep(j)
    \/ \E j \in Solo : CreateJobEnqueueFails(j)
    \/ \E j \in Solo : CancelStep(j)
    \/ \E j \in Solo : EnvStep(j)
    \/ stuck_job_cleanup
    \/ ThresholdElapses

Spec == Init /\ [][Next]_vars

\* the same, with the fairness the deployment provides: a handler that has
\* started runs on, a worker keeps taking and executing runs.  Nothing in
\* the repository calls stuck_job_cleanup, so the sweep gets no fairness.
NextLive ==
    \/ \E j \in Solo : RunStep(j)
    \/ \E j \in Solo : CreateStep(j)
    \/ \E j \in Solo : CancelStep(j)
    \/ \E j \in Solo : EnvStep(j)
    \/ stuck_job_cleanup
    \/ ThresholdElapses

FairSpec ==
    /\ Init
    /\ [][NextLive]_vars
    /\ WF_vars(\E j \in Solo : RunStep(j))
    /\ WF_vars(\E j \in Solo : CreateJobInsert(j) \/ CreateJobEnqueue(j))
    /\ WF_vars(\E j \in Solo : \E revoked \in BOOLEAN : CancelJobWrite(j, revoked))

\* one submission and its runs, with nothing else touching the job
NextRun ==
    \/ \E j \in Solo : SubmitRun(j)
    \/ \E j \in Solo : CreateJobInsert(j)
    \/ \E j \in Solo : CreateJobEnqueue(j)
    \/ \E j \in Solo : RunStep(j)

SpecRun == Init /\ [][NextRun]_vars

\* one submission and its runs, with the job row deleted under a waiting
\* message
NextLoad ==
    \/ \E j \in Solo : SubmitRun(j)
    \/ \E j \in Solo : CreateJobInsert(j)
    \/ \E j \in Solo : CreateJobEnqueue(j)
    \/ \E j \in Solo : JobRowDeleted(j)
    \/ \E j \in Solo : RunStep(j)

SpecLoad == Init /\ [][NextLoad]_vars

\* several jobs of different ages and statuses under the sweep: jobs are
\* submitted, started and cancelled while time passes
NextSweep ==
    \/ \E j \in SweepJobs : SubmitSweep(j)
    \/ \E j \in SweepJobs : CreateJobInsert(j)
    \/ \E j \in SweepJobs : CreateJobEnqueue(j)
    \/ \E j \in SweepJobs : StartRun(j)
    \/ \E j \in SweepJobs : CancelStep(j)
    \/ stuck_job_cleanup
    \/ ThresholdElapses

SpecSweep == Init /\ [][NextSweep]_vars

\* enrich_company has left its loop with some final text and stores the
\* result
InitExtract ==
    /\ jobs = [j \in Jobs |-> NoJob]
    /\ results = [j \in Jobs |-> <<>>]
    /\ usage = [j \in Jobs |-> 0]
    /\ task = [j \in Jobs |-> IdleTask]
    /\ run = [j \in Jobs |-> IdleRun]
    /\ req = [j \in Jobs |-> IdleReq]
    /\ cancel = [j \in Jobs |-> "idle"]
    /\ \E text \in TextsUpTo(MaxTextLen) :
         agent = [IdleAgent EXCEPT !.pc = "save", !.iteration = 1, !.turns = 1,
                                   !.provider_calls = 1, !.exit = "stop",
                                   !.final_text = text]

NextExtract ==
    \/ SaveResult
    \/ SaveResultRaises

SpecExtract == InitExtract /\ [][NextExtract]_vars

\* several submissions of the tenants handled concurrently
NextCap ==
    \/ \E j \in Jobs : SubmitOne(j)
    \/ \E j \in Jobs : SubmitEdge(j)
    \/ \E j \in Jobs : CreateJobInsert(j)
    \/ \E j \in Jobs : CreateJobEnqueue(j)

SpecCap == Init /\ [][NextCap]_vars

\* one enrich_company invocation under every sequence of provider outcomes
SpecAgent == Init /\ [][AgentStep]_vars

FairSpecAgent == Init /\ [][AgentStep]_vars /\ WF_vars(AgentStep)

\* ------------------------------------------------------------- properties
\* C1: for every job, completed_items + failed_items <= total_items in every
\* reachable state, also after retries and redeliveries re-ran the loop
C1_CountersWithinTotal ==
    \A j \in Jobs : jobs[j].completed_items + jobs[j].failed_items <= jobs[j].total_items

\* a retried and redelivered run is at an item again while every item of the
\* job is already counted
C1_Witness ==
    \E j \in Jobs :
        /\ task[j].retries > 0
        /\ task[j].redelivered
        /\ run[j].pc = "agent"
        /\ jobs[j].total_items > 1
        /\ jobs[j].completed_items + jobs[j].failed_items = jobs[j].total_items

\* C2: once a job's status is terminal, no step changes it
C2_TerminalIsFinal ==
    [][\A j \in Jobs : jobs[j].status \in Terminal => jobs'[j].status = jobs[j].status]_vars

\* C3: at most one EnrichmentResult row per (job, input name)
C3_OneRowPerName ==
    \A j \in Jobs : \A n \in Names : Cardinality(RowsFor(j, n)) <= 1

\* a re-run reached the except branch for a name that already has its row
C3_Witness ==
    \E j \in Jobs :
        /\ (task[j].retries > 0 \/ task[j].redelivered)
        /\ run[j].pc = "except"
        /\ UniqueViolation(j, Company(j))

\* C4: when the soft deadline fires in a run of a running job whose current
\* item is not processed yet, the run stops there and the job becomes partial
\* with the resubmit message
C4_SoftDeadlineGivesPartial ==
    [][\A j \in Jobs :
         (run[j].pc = "agent" /\ jobs[j].status = "running" /\ SoftTimeLimit(j))
         => /\ run'[j].pc = "idle"
            /\ jobs'[j].status = "partial"
            /\ jobs'[j].error_message = MSG_PARTIAL]_vars

\* C5: a run that raises is re-published with retries + 1 and a 60 s
\* countdown while retries < 3, the job is marked failed by the task only
\* when the run with retries = 3 raises, and a run ended by the soft timeout
\* is not re-published
C5_RetryPolicy ==
    [][\A j \in Jobs :
         /\ (StartRunRaises(j) \/ ExceptItemRaises(j) \/ FinishRunRaises(j))
            => IF task[j].retries < max_retries
               THEN /\ task'[j].state = "RETRY"
                    /\ task'[j].retries = task[j].retries + 1
                    /\ task'[j].countdown = RETRY_COUNTDOWN
                    /\ jobs'[j] = jobs[j]
               ELSE /\ task'[j].state = "FAILURE"
                    /\ jobs[j].status \in Active => jobs'[j].status = "failed"
         /\ task'[j].retries <= max_retries
         /\ (jobs'[j].error_message = MSG_EXC /\ jobs[j].error_message # MSG_EXC)
            => task[j].retries = max_retries
         /\ SoftTimeLimitEscapes(j)
            => (task'[j].state = "SUCCESS" /\ task'[j].retries = task[j].retries)]_vars

\* the fourth attempt raised and the task marked the job failed
C5_Witness ==
    \E j \in Jobs :
        /\ task[j].state = "FAILURE"
        /\ task[j].retries = max_retries
        /\ jobs[j].status = "failed"
        /\ jobs[j].error_message = MSG_EXC

\* C6: a step of cancel_job taken while the job's status is terminal leaves
\* status and completed_at as they are
C6_CancelOnlyActive ==
    [][\A j \in Jobs :
         (cancel'[j] # cancel[j] /\ jobs[j].status \in Terminal)
         => /\ jobs'[j].status = jobs[j].status
            /\ jobs'[j].completed_at = jobs[j].completed_at]_vars

\* C7: a job cancelled while queued (no run of it ever started) stays
\* cancelled with completed_items = 0
C7_CancelledQueuedStays ==
    [][\A j \in Jobs :
         (jobs[j].status = "cancelled" /\ jobs[j].started_at = "null")
         => (jobs'[j].status = "cancelled" /\ jobs'[j].completed_items = 0)]_vars

\* C8: no tenant ever has more than MAX_CONCURRENT_JOBS_PER_ORG jobs in
\* status queued or running
C8_ConcurrencyCap ==
    \A o \in Orgs : ActiveCount(o) <= MAX_CONCURRENT_JOBS_PER_ORG

\* C9: every queued job eventually reaches a terminal status
C9_QueuedReachesTerminal ==
    \A j \in Jobs : (jobs[j].status = "queued") ~> (jobs[j].status \in Terminal)

\* C10: enrich_company issues at most max_iterations model turns and then
\* ends; a loop that ran into the cap without a stop goes on to _save_result
\* with the text it has, and the invocation that finishes has stored its one
\* result built from that text
C10_AgentLoopBounded ==
    /\ [](agent.turns <= GROQ_MAX_TOOL_ITERATIONS)
    /\ [](agent.exit = "cap" => agent.turns = GROQ_MAX_TOOL_ITERATIONS)
    /\ [](agent.pc = "done" => (agent.saved = 1 /\ agent.saved_text = agent.final_text))
    /\ ((agent.pc = "loop") ~> (agent.pc \in {"done", "raised"}))

\* the loop used all its turns on tool calls and the result was stored
C10_Witness ==
    /\ agent.pc = "done"
    /\ agent.turns = GROQ_MAX_TOOL_ITERATIONS
    /\ agent.exit = "cap"
    /\ agent.final_text = <<>>
    /\ agent.saved = 1

\* C11: for every sequence of model responses, the number of execute_tool
\* invocations of one enrich_company call equals the number of tool calls
\* requested by the tool_calls responses handled so far whenever the call is
\* not in the middle of a response's tool calls, and the result it stores
\* carries that number as tool_calls_made
C11_ToolCallsCounted ==
    /\ agent.pc # "tools" => agent.executed = agent.requested
    /\ agent.pc = "done" => (agent.saved = 1 /\ agent.tool_calls_made = agent.requested)

\* C12: an invocation of enrich_company that ends (other than by a lost
\* connection or the time limit) has stored exactly one EnrichmentResult
\* and one usage record and returns to its caller without an exception
C12_OneResultOneUsagePerInvocation ==
    [][\A j \in Jobs :
         (/\ run[j].pc = "agent"
          /\ run'[j].pc \in {"count", "except"}
          /\ run'[j].signalled = run[j].signalled
          /\ run'[j].pc = "except" => UniqueViolation(j, Company(j)))
         => /\ run'[j].pc = "count"
            /\ Len(results'[j]) = Len(results[j]) + 1
            /\ results'[j][Len(results'[j])].status \in {"completed", "failed"}
            /\ usage'[j] = usage[j] + 1]_vars

\* C13: an item for which the provider failed on every attempt (the agent
\* got no response, ended with the empty text and stored a failed result)
\* is counted in failed_items, not completed_items, and the run goes on to
\* the next item
C13_ProviderFailureCountsFailed ==
    [][\A j \in Jobs :
         (/\ run[j].pc = "count"
          /\ results[j][Len(results[j])].error_message = SaveError(<<>>)
          /\ CountItem(j))
         => /\ jobs'[j].failed_items = jobs[j].failed_items + 1
            /\ jobs'[j].completed_items = jobs[j].completed_items
            /\ run'[j] = NextItem(j)]_vars

\* C14: every execute_tool invocation, for every tool name and every
\* argument mapping, returns a text and does not raise, and the agent goes
\* on with the next tool call or the next model turn
C14_ExecuteToolNeverRaises ==
    [][agent'.executed = agent.executed + 1
       => /\ ~agent'.tool_result.raised
          /\ agent'.tool_result.text # "none"
          /\ agent'.pending = agent.pending - 1
          /\ agent'.pc = (IF agent.pending = 1 THEN "loop" ELSE "tools")]_vars

\* a tool call without its required argument was answered with the
\* tool-error text and the loop went on
C14_Witness ==
    /\ agent.pc = "loop"
    /\ agent.executed >= 2
    /\ agent.tool_result = Returned("Tool error (name): detail")

\* C15: in a first, uninterrupted run the number of usage records carrying
\* the job's id equals the number of items processed so far
C15_OneUsagePerItem ==
    \A j \in Jobs :
        (task[j].retries = 0 /\ ~task[j].redelivered /\ run[j].pc \in {"agent", "phase3"})
        => usage[j] = jobs[j].completed_items + jobs[j].failed_items

\* C16: when enqueueing failed because the broker was unreachable, the job
\* is marked failed
C16_BrokerDownMarksFailed ==
    \A j \in Jobs : req[j].pc = "error500" => jobs[j].status = "failed"

\* C17: the agent is never invoked for an item that already has a stored
\* EnrichmentResult of the job
C17_StoredItemsSkipped ==
    \A j \in Jobs : run[j].pc = "agent" => ~UniqueViolation(j, Company(j))

\* C18: a step of cancel_job, of the sweep or of phase 3 of a run taken
\* while the job's status is terminal leaves it terminal
C18_RaceKeepsTerminal ==
    [][\A j \in Jobs :
         (/\ jobs[j].status \in Terminal
          /\ (FinishRun(j) \/ CancelStep(j) \/ stuck_job_cleanup))
         => jobs'[j].status \in Terminal]_vars

\* a cancel and the sweep both wrote while the run went on, and the run
\* then finished normally
C18_Witness ==
    \E j \in Jobs :
        /\ cancel[j] = "cancelled"
        /\ jobs[j].error_message = MSG_SWEEP
        /\ jobs[j].status = "completed"
        /\ task[j].state = "SUCCESS"

\* C19: within a run the agent is entered for item 1 first and for item
\* i + 1 only from the finished step of item i, the item does not change
\* during an invocation, and the row an invocation stores is that item's
C19_ItemsInOrder ==
    [][\A j \in Jobs :
         /\ run'[j].i # run[j].i
            => \/ run'[j] = IdleRun
               \/ run[j].pc = "idle" /\ run'[j].pc = "agent" /\ run'[j].i = 1
               \/ /\ run[j].pc \in {"count", "except"}
                  /\ run'[j].pc = "agent"
                  /\ run'[j].i = run[j].i + 1
         /\ (run'[j].pc = "agent" /\ run[j].pc # "agent") => run'[j].i # run[j].i
         /\ Len(results'[j]) > Len(results[j])
            => results'[j][Len(results'[j])].input_name = jobs[j].companies[run[j].i]]_vars

\* a first run is at its second item with the first item's row stored
C19_Witness ==
    \E j \in Jobs :
        /\ task[j].retries = 0
        /\ ~task[j].redelivered
        /\ run[j].pc = "agent"
        /\ run[j].i = 2
        /\ Len(results[j]) = 1
        /\ results[j][1].input_name = jobs[j].companies[1]

\* C20: no step decreases completed_items or failed_items of a job
C20_CountersMonotone ==
    [][\A j \in Jobs :
         /\ jobs'[j].completed_items >= jobs[j].completed_items
         /\ jobs'[j].failed_items >= jobs[j].failed_items]_vars

\* a job with both counters above zero went through a retry, a redelivery,
\* a sweep and a cancel
C20_Witness ==
    \E j \in Jobs :
        /\ task[j].retries > 0
        /\ task[j].redelivered
        /\ jobs[j].completed_items > 0
        /\ jobs[j].failed_items > 0
        /\ jobs[j].error_message = MSG_SWEEP
        /\ cancel[j] = "cancelled"

\* C21: from the end of one item step to the end of the next within a run,
\* progress_pct of the job does not decrease
C21_ProgressMonotone ==
    [][\A j \in Jobs :
         (run[j].pc \in {"count", "except"} /\ run'[j].pc \in {"agent", "phase3"})
         => progress_pct(j)' >= progress_pct(j)]_vars

\* C22: the step that makes a job partial changes nothing of the job but
\* status, error_message and completed_at, and leaves every stored
\* EnrichmentResult in place
C22_PartialKeepsResults ==
    [][\A j \in Jobs :
         (jobs'[j].status = "partial" /\ jobs[j].status # "partial")
         => /\ results' = results
            /\ jobs'[j] = [jobs[j] EXCEPT !.status = "partial",
                                          !.error_message = MSG_PARTIAL,
                                          !.completed_at = "set"]]_vars

\* a job with stored results and counted items became partial
C22_Witness ==
    \E j \in Jobs :
        /\ jobs[j].status = "partial"
        /\ jobs[j].error_message = MSG_PARTIAL
        /\ Len(results[j]) > 0
        /\ jobs[j].completed_items > 0
        /\ jobs[j].completed_items < jobs[j].total_items

\* C23: when a job becomes partial, completed_items equals the number of
\* results the agent has written for the job
C23_PartialCountMatchesResults ==
    [][\A j \in Jobs :
         (jobs'[j].status = "partial" /\ jobs[j].status # "partial")
         => jobs'[j].completed_items =
              Cardinality({k \in DOMAIN results'[j] : results'[j][k].by = "agent"})]_vars

C25_CreateJobRejects ==
    /\ [](\A j \in Jobs :
            req[j].pc \in {"rejected400", "rejected429"}
            => (jobs[j].status = "absent" /\ task[j].state = "NONE"))
    /\ [][\A j \in Jobs : \A o \in Orgs : \A raw \in EdgeBatches \cup {<<1>>} :
           (req[j].pc = "idle" /\ req'[j].org = o /\ CreateJobCheck(j, o, raw))
           => IF Len(raw) = 0 \/ Len(raw) > MAX_COMPANIES_PER_JOB
              THEN req'[j].pc = "rejected400" /\ jobs' = jobs /\ task' = task
              ELSE IF ActiveCount(o) >= MAX_CONCURRENT_JOBS_PER_ORG
              THEN req'[j].pc = "rejected429" /\ jobs' = jobs /\ task' = task
              ELSE req'[j].pc = "checked"]_vars

\* a request was turned away because its tenant was at the cap
C25_Witness ==
    \E j \in Jobs :
        /\ req[j].pc = "rejected429"
        /\ jobs[j].status = "absent"
        /\ task[j].state = "NONE"
        /\ ActiveCount(req[j].org) = MAX_CONCURRENT_JOBS_PER_ORG

\* C26: after a model response the loop goes on (to the response's tool
\* calls and then the next model call) exactly when the finish reason is
\* tool_calls with at least one call; a stop response ends the loop with its
\* text, any other response ends it with its content, empty when it has none
C26_FinishReasons ==
    [][\A resp \in Responses :
         ProviderCall("ok", resp)
         => /\ (agent'.pc = "tools") <=> (resp.finish = "tool_calls" /\ resp.ncalls > 0)
            /\ agent'.pc # "tools"
               => /\ agent'.pc = "save"
                  /\ agent'.final_text = resp.content
                  /\ agent'.exit = (IF resp.finish = "stop" THEN "stop" ELSE "other")]_vars

\* after some tool calls a response cut off by the length limit ended the
\* loop, and its content became the stored text
C26_Witness ==
    /\ agent.pc = "done"
    /\ agent.exit = "other"
    /\ agent.executed > 0
    /\ agent.final_text = ProseText
    /\ agent.saved_text = ProseText

\* C27: one model turn makes at most 3 provider calls and always ends; a
\* successful call ends it with the response, an unexpected error ends it
\* at once, and once a turn ended without a response the loop makes no
\* further model call and goes to save the empty text
C27_CallWithRetryBounded ==
    /\ [](agent.provider_calls <= agent_max_retries)
    /\ [](agent.exit = "noresponse"
            => (agent.pc \in {"save", "done", "raised"} /\ agent.final_text = <<>>))
    /\ [][\A resp \in Responses :
             (ProviderCall("ok", resp) \/ ProviderCall("unexpected", resp))
             => (agent'.pc # "call" /\ agent'.provider_calls = agent.provider_calls + 1)]_vars
    /\ [][agent.exit = "noresponse"
           => (agent'.turns = agent.turns /\ agent'.provider_calls = agent.provider_calls)]_vars
    /\ ((agent.pc = "call") ~> (agent.pc # "call"))

\* in a later turn three transient failures exhausted the attempts and the
\* invocation stored a failed result
C27_Witness ==
    /\ agent.pc = "done"
    /\ agent.exit = "noresponse"
    /\ agent.turns > 1
    /\ agent.provider_calls = agent_max_retries
    /\ agent.api_errors = 0
    /\ agent.saved_status = "failed"

\* C28: a turn that ends without a response after nothing but non-transient
\* provider errors has made exactly two attempts
C28_NonTransientTwoAttempts ==
    (agent.exit = "noresponse" /\ agent.api_errors > 0
                               /\ agent.api_errors = agent.provider_calls)
    => agent.provider_calls = 2

\* C29: when enrich_company raised for an item, the except branch of the
\* item step (run with the database reachable) increments failed_items by
\* one, stores one failed row for the item carrying the error message, and
\* the loop goes on with the next item
C29_AgentRaiseCountsFailed ==
    [][\A j \in Jobs :
         (/\ run[j].pc = "except"
          /\ run[j].agent_raised
          /\ (ExceptItem(j) \/ (ExceptItemRaises(j) /\ UniqueViolation(j, Company(j)))))
         => /\ jobs'[j].failed_items = jobs[j].failed_items + 1
            /\ jobs'[j].completed_items = jobs[j].completed_items
            /\ results'[j] = Append(results[j],
                                    [input_name |-> Company(j), status |-> "failed",
                                     error_message |-> <<MSG_EXC>>, by |-> "worker"])
            /\ run'[j] = NextItem(j)]_vars

\* C30: a step of the item loop leaves the job's status as it is, and
\* phase 3 of a run whose loop reached its end sets status completed, a
\* completion time and progress 100%, whatever number of items failed
C30_ItemFailuresKeepStatus ==
    [][\A j \in Jobs :
         /\ (run[j].pc \in {"agent", "count", "except"} /\ run'[j].pc # "idle" /\ RunStep(j))
            => jobs'[j].status = jobs[j].status
         /\ FinishRun(j)
            => /\ jobs'[j].status = "completed"
               /\ jobs'[j].completed_at = "set"
               /\ progress_pct(j)' = 100]_vars

\* a first run in which every item of the batch failed ended as completed
C30_Witness ==
    \E j \in Jobs :
        /\ task[j].state = "SUCCESS"
        /\ task[j].retries = 0
        /\ jobs[j].status = "completed"
        /\ jobs[j].total_items > 1
        /\ jobs[j].failed_items = jobs[j].total_items
        /\ progress_pct(j) = 100

\* C31: a run that finds no job row at its start ends with an exception:
\* the task is re-published for a retry or, with the retries used up, ends
\* as a failure
C31_MissingJobRaises ==
    [][\A j \in Jobs :
         (jobs[j].status = "absent" /\ run[j].pc = "idle"
          /\ task[j].state \in {"PENDING", "RETRY"} /\ task'[j] # task[j])
         => task'[j].state \in {"RETRY", "FAILURE"}]_vars

\* C32: once cancel_job has recorded the cancellation of a running job, the
\* run goes on to no further item, and the step that records the
\* cancellation leaves the run where it is
C32_CancelIsCooperative ==
    /\ [][\A j \in Jobs :
            (jobs[j].status = "cancelled" /\ run[j].pc # "idle")
            => run'[j].i <= run[j].i]_vars
    /\ [][\A j \in Jobs :
            (jobs[j].status = "running" /\ jobs'[j].status = "cancelled")
            => run'[j] = run[j]]_vars

\* C33: a sweep sets exactly the jobs that are queued or running and whose
\* started_at (created_at when the job never started) is older than the
\* threshold to failed, with the sweep's message and a completion time;
\* every other job row and everything else stay as they are, and right
\* after a sweep no job is left for a second one to reset
C33_SweepFrame ==
    [][stuck_job_cleanup =>
         /\ \A j \in Jobs :
              jobs'[j] =
                IF /\ jobs[j].status \in {"queued", "running"}
                   /\ \/ jobs[j].started_at = "old"
                      \/ (jobs[j].started_at = "null" /\ jobs[j].created_at = "old")
                THEN [jobs[j] EXCEPT !.status = "failed", !.error_message = MSG_SWEEP,
                                     !.completed_at = "set"]
                ELSE jobs[j]
         /\ \A j \in Jobs : jobs[j].status \in Terminal => jobs'[j] = jobs[j]
         /\ results' = results
         /\ Stuck' = {}]_vars

\* a sweep has reset one job while a stale cancelled job kept its row
C33_Witness ==
    \E j, k \in Jobs :
        /\ jobs[j].status = "failed" /\ jobs[j].error_message = MSG_SWEEP
        /\ jobs[j].completed_at = "set"
        /\ jobs[k].status = "cancelled" /\ jobs[k].created_at = "old"
        /\ jobs[k].error_message = MSG_NONE
        /\ Stuck = {}

C35_ExtractOrder ==
    agent.pc = "done" =>
        LET t == strip(agent.saved_text)
            cands == <<t, Fenced(t), Brace(t), Repaired(t)>>
            good == {k \in 1..4 : cands[k] # None /\ Loads(cands[k])}
        IN  IF good # {}
            THEN /\ agent.saved_data = cands[CHOOSE k \in good : \A m \in good : k <= m]
                 /\ agent.saved_status = "completed"
                 /\ agent.saved_error = <<"null">>
            ELSE /\ agent.saved_data = None
                 /\ agent.saved_status = "failed"
                 /\ agent.saved_error = <<"No JSON found. Preview: ">> \o agent.saved_text

\* a stored row built from the repair of a truncated object that follows
\* some prose
C35_Witness ==
    /\ agent.pc = "done"
    /\ agent.saved_status = "completed"
    /\ Head(agent.saved_text) = "x"
    /\ Brace(strip(agent.saved_text)) = None
    /\ agent.saved_data = Repaired(strip(agent.saved_text))

\* C36: when the first delivery of a job's task, never retried, runs
\* through all items with nothing else touching the job, then at the step
\* that makes the job completed completed_items + failed_items equals
\* total_items
C36_SingleRunCountsAll ==
    [][\A j \in Jobs :
         (/\ jobs'[j].status = "completed" /\ jobs[j].status # "completed"
          /\ task[j].retries = 0 /\ ~task[j].redelivered)
         => jobs'[j].completed_items + jobs'[j].failed_items = jobs'[j].total_items]_vars

\* a first run of three items, some enriched and some failed, completed
C36_Witness ==
    \E j \in Jobs :
        /\ jobs[j].status = "completed"
        /\ task[j].state = "SUCCESS" /\ task[j].retries = 0
        /\ jobs[j].total_items = MaxRunItems
        /\ jobs[j].completed_items > 0
        /\ jobs[j].failed_items > 0
        /\ Len(results[j]) = jobs[j].total_items

\* C37: in every reachable state credits_used of a job equals its
\* completed_items, and a step changes them only together and by one, in
\* the success branch of the item step
C37_CreditsEqualCompleted ==
    /\ [](\A j \in Jobs : jobs[j].credits_used = jobs[j].completed_items)
    /\ [][\A j \in Jobs :
            (jobs'[j].credits_used # jobs[j].credits_used
             \/ jobs'[j].completed_items # jobs[j].completed_items)
            => /\ run[j].pc = "count"
               /\ jobs'[j].credits_used = jobs[j].credits_used + 1
               /\ jobs'[j].completed_items = jobs[j].completed_items + 1]_vars

\* a retried run has counted every item of the batch: both counters moved
\* together
C37_Witness ==
    \E j \in Jobs :
        /\ task[j].retries > 0
        /\ jobs[j].completed_items = MaxItems
        /\ jobs[j].credits_used = jobs[j].completed_items

\* C38: every job whose status is completed, failed, partial or cancelled
\* has completed_at set
C38_TerminalHasCompletedAt ==
    \A j \in Jobs :
        jobs[j].status \in {"completed", "failed", "partial", "cancelled"}
        => jobs[j].completed_at = "set"

\* a job that never ran was cancelled while queued
C38_Witness ==
    \E j \in Jobs :
        /\ jobs[j].status = "cancelled"
        /\ jobs[j].started_at = "null"
        /\ jobs[j].completed_at = "set"

\* C39: the call of _mark_job_failed at the final failure of a task changes
\* the job row (status, message, completion time) only when its status is
\* queued or running, the call of _mark_job_partial at the soft time limit
\* only when it is running; on any other status the row stays as it is
C39_MarkIsConditional ==
    [][\A j \in Jobs :
         /\ ((StartRunRaises(j) \/ ExceptItemRaises(j) \/ FinishRunRaises(j))
              /\ ~(task[j].retries < max_retries))
            => jobs'[j] = IF jobs[j].status \in {"queued", "running"}
                          THEN [jobs[j] EXCEPT !.status = "failed",
                                               !.error_message = MSG_EXC,
                                               !.completed_at = "set"]
                          ELSE jobs[j]
         /\ SoftTimeLimitEscapes(j)
            => jobs'[j] = IF jobs[j].status = "running"
                          THEN [jobs[j] EXCEPT !.status = "partial",
                                               !.error_message = MSG_PARTIAL,
                                               !.completed_at = "set"]
                          ELSE jobs[j]]_vars

\* the soft time limit ended the run of a job that had been cancelled
\* meanwhile: the row is still the cancelled one
C39_Witness ==
    \E j \in Jobs :
        /\ jobs[j].status = "cancelled"
        /\ jobs[j].error_message = MSG_NONE
        /\ jobs[j].progress_num < jobs[j].total_items
        /\ task[j].state = "SUCCESS"
        /\ run[j].pc = "idle"

====
